---- MODULE Spec2Model ----
(***************************************************************************)
(* A model of pffft.hpp: the C++ facade Fft<T> over the PFFFT engine, its  *)
(* per-kind Setup<T> wrappers, and the aligned allocator.                  *)
(*                                                                         *)
(* The engine (pffft.c / pffft_double.c) is not part of pffft.hpp; it is   *)
(* modelled as the black box the specification describes: a setup is      *)
(* created for (length, transform) or refused with NULL, transforms are    *)
(* unscaled DFTs, and the aligned allocator yields memory or NULL.         *)
(***************************************************************************)
EXTENDS Integers, Sequences, FiniteSets, TLC

(***************************************************************************)
(* Bounds of the model.                                                    *)
(***************************************************************************)
\* transform lengths offered to the constructor and to prepareLength: 0..MaxLen
MaxLen == 4
\* stack thresholds offered to the constructor: -1..MaxThreshold
MaxThreshold == 2
\* heap cells per pool (engine setups, scratch buffers)
NumAddr == 2

(***************************************************************************)
(* Numeric kinds: the four template arguments T of Fft<T>, Types<T> and    *)
(* Setup<T>.                                                               *)
(***************************************************************************)
Kinds == {"float", "cfloat", "double", "cdouble"}

NULL == 0

Addr == 1..NumAddr

Lengths == 0..MaxLen

Thresholds == (-1)..MaxThreshold

\* sizeof(Types<T>::Scalar)
SizeofScalar(k) == IF k \in {"float", "cfloat"} THEN 4 ELSE 8

\* sizeof(Types<T>::Complex): std::complex<Scalar> is two scalars
SizeofComplex(k) == 2 * SizeofScalar(k)

\* sizeof(T)
SizeofT(k) == IF k \in {"float", "double"} THEN SizeofScalar(k) ELSE 2 * SizeofScalar(k)

\* Fft<T>::isComplexTransform()
isComplexTransform(k) == SizeofT(k) = SizeofComplex(k)

\* the pffft_transform_t each Setup<T> specialization passes to the engine
TransformOf(k) == IF k \in {"float", "double"} THEN "PFFFT_REAL" ELSE "PFFFT_COMPLEX"

\* the engine library each specialization calls: pffft_* or pffftd_*
LibOf(k) == IF k \in {"float", "cfloat"} THEN "pffft" ELSE "pffftd"

(***************************************************************************)
(* The engine and the allocator, as the specification describes them.      *)
(***************************************************************************)
NoSetup == [live |-> FALSE, N |-> 0, transform |-> "", lib |-> ""]

NoBuf == [live |-> FALSE, bytes |-> 0]

EmptyHeap == [setups |-> [a \in Addr |-> NoSetup], bufs |-> [a \in Addr |-> NoBuf]]

\* one call made to the engine or to the allocator
Call(fn, lib, h, w, n, tr, res) ==
  [fn |-> fn, lib |-> lib, h |-> h, w |-> w, n |-> n, tr |-> tr, res |-> res]

\* SIMD width of the engine build (scalar build)
simd_size == 1

\* pffft_min_fft_size(transform)
minFFtsize(transform) ==
  IF transform = "PFFFT_REAL" THEN 2 * simd_size * simd_size ELSE simd_size * simd_size

RECURSIVE isPowerOfTwo(_)
isPowerOfTwo(n) == n >= 1 /\ (n = 1 \/ (n % 2 = 0 /\ isPowerOfTwo(n \div 2)))

\* the lengths for which the engine creates a setup
EngineAccepts(n, transform) == n >= minFFtsize(transform) /\ isPowerOfTwo(n)

FreeCells(pool) == {a \in Addr : ~pool[a].live}

LowestFree(pool) == CHOOSE a \in FreeCells(pool) : \A b \in FreeCells(pool) : a <= b

\* pffft_new_setup(N, transform): a handle, or NULL for a length it refuses
pffft_new_setup(st, lib, n, transform) ==
  IF EngineAccepts(n, transform) /\ FreeCells(st.heap.setups) # {}
  THEN LET h == LowestFree(st.heap.setups)
       IN [st EXCEPT !.heap.setups[h] = [live |-> TRUE, N |-> n, transform |-> transform, lib |-> lib],
                     !.ret = h,
                     !.calls = Append(@, Call("new_setup", lib, NULL, NULL, n, transform, h))]
  ELSE [st EXCEPT !.ret = NULL,
                  !.calls = Append(@, Call("new_setup", lib, NULL, NULL, n, transform, NULL))]

\* pffft_destroy_setup(handle)
pffft_destroy_setup(st, lib, h) ==
  [st EXCEPT !.heap.setups = [a \in Addr |-> IF a = h THEN NoSetup ELSE @[a]],
             !.calls = Append(@, Call("destroy_setup", lib, h, NULL, 0, "", NULL))]

\* pffft_aligned_malloc(nb_bytes): memory, or NULL when there is none
pffft_aligned_malloc(st, lib, nbytes, ok) ==
  IF ok /\ FreeCells(st.heap.bufs) # {}
  THEN LET p == LowestFree(st.heap.bufs)
       IN [st EXCEPT !.heap.bufs[p] = [live |-> TRUE, bytes |-> nbytes],
                     !.ret = p,
                     !.calls = Append(@, Call("aligned_malloc", lib, NULL, NULL, nbytes, "", p))]
  ELSE [st EXCEPT !.ret = NULL,
                  !.calls = Append(@, Call("aligned_malloc", lib, NULL, NULL, nbytes, "", NULL))]

\* pffft_aligned_free(ptr): a no-op on NULL
pffft_aligned_free(st, lib, p) ==
  [st EXCEPT !.heap.bufs = [a \in Addr |-> IF a = p THEN NoBuf ELSE @[a]],
             !.calls = Append(@, Call("aligned_free", lib, NULL, p, 0, "", NULL))]

(***************************************************************************)
(* The engine's arithmetic.  Buffers are sequences of scalars, a complex   *)
(* number is the pair <<re, im>>, and a buffer of complex numbers is       *)
(* interleaved re, im, re, im, ...  Scalars are integers, and lengths are  *)
(* those whose roots of unity are 1, i, -1, -i, so that every sum is exact.*)
(***************************************************************************)
CAdd(u, v) == <<u[1] + v[1], u[2] + v[2]>>

CMul(u, v) == <<u[1] * v[1] - u[2] * v[2], u[1] * v[2] + u[2] * v[1]>>

\* i^j
Unit4(j) ==
  CASE j % 4 = 0 -> <<1, 0>>
    [] j % 4 = 1 -> <<0, 1>>
    [] j % 4 = 2 -> <<-1, 0>>
    [] j % 4 = 3 -> <<0, -1>>

\* lengths whose N-th roots of unity are powers of i
ExactLength(n) == n >= 1 /\ 4 % n = 0

\* exp(-2 pi i m / N) forward, exp(+2 pi i m / N) backward
Root(n, m, direction) ==
  LET e == ((4 \div n) * m) % 4
  IN Unit4(IF direction = "PFFFT_FORWARD" THEN (4 - e) % 4 ELSE e)

RECURSIVE SumC(_)
SumC(cs) == IF cs = <<>> THEN <<0, 0>> ELSE CAdd(Head(cs), SumC(Tail(cs)))

\* the k-th complex element (k from 0) of an interleaved buffer
CplxAt(buf, k) == <<buf[2 * k + 1], buf[2 * k + 2]>>

\* bin k of the length-n DFT of the complex sequence c (indexed from 1)
Bin(c, n, k, direction) == SumC([j \in 1..n |-> CMul(c[j], Root(n, k * (j - 1), direction))])

\* complex transform, canonical order: 2N scalars in, 2N scalars out, unscaled
ComplexTransform(input, n, direction) ==
  LET c == [j \in 1..n |-> CplxAt(input, j - 1)]
  IN [i \in 1..(2 * n) |-> Bin(c, n, (i - 1) \div 2, direction)[((i - 1) % 2) + 1]]

\* real forward transform, canonical order: N reals in; N scalars out, the
\* first pair being (DC, Nyquist) and pair k the bin k, 1 <= k < N/2
RealForward(input, n) ==
  LET c == [j \in 1..n |-> <<input[j], 0>>]
  IN [i \in 1..n |->
        IF i = 1 THEN Bin(c, n, 0, "PFFFT_FORWARD")[1]
        ELSE IF i = 2 THEN Bin(c, n, n \div 2, "PFFFT_FORWARD")[1]
        ELSE Bin(c, n, (i - 1) \div 2, "PFFFT_FORWARD")[((i - 1) % 2) + 1]]

\* real backward transform from the canonical order, unscaled
RealBackward(input, n) ==
  [j \in 1..n |->
     input[1]
     + (IF (j - 1) % 2 = 0 THEN input[2] ELSE 0 - input[2])
     + 2 * SumC([k \in 1..((n \div 2) - 1) |->
                   CMul(CplxAt(input, k), Root(n, k * (j - 1), "PFFFT_BACKWARD"))])[1]]

\* pffft_zreorder: between the engine's internal layout and the canonical
\* order.  Complex spectra are copied; a real spectrum keeps its Nyquist
\* term last in the internal layout and second in the canonical order.
pffft_zreorder(s, input, direction) ==
  LET n == s.N
  IN IF s.transform = "PFFFT_COMPLEX" THEN input
     ELSE IF direction = "PFFFT_FORWARD"
          THEN [i \in 1..n |-> IF i = 1 THEN input[1]
                               ELSE IF i = 2 THEN input[n] ELSE input[i - 1]]
          ELSE [i \in 1..n |-> IF i = 1 THEN input[1]
                               ELSE IF i = n THEN input[2] ELSE input[i + 1]]

\* pffft_transform_ordered
pffft_transform_ordered(s, input, direction) ==
  IF s.transform = "PFFFT_COMPLEX" THEN ComplexTransform(input, s.N, direction)
  ELSE IF direction = "PFFFT_FORWARD" THEN RealForward(input, s.N)
  ELSE RealBackward(input, s.N)

\* pffft_transform: the same transform, the spectrum in the internal layout
pffft_transform(s, input, direction) ==
  IF direction = "PFFFT_FORWARD"
  THEN pffft_zreorder(s, pffft_transform_ordered(s, input, "PFFFT_FORWARD"), "PFFFT_BACKWARD")
  ELSE pffft_transform_ordered(s, pffft_zreorder(s, input, "PFFFT_FORWARD"), "PFFFT_BACKWARD")

\* the product (a * b) * scaling of two spectra in the internal layout
ZProduct(s, a, b, scaling) ==
  LET n == Len(a)
      first == IF s.transform = "PFFFT_REAL" THEN 2 ELSE 1
  IN [i \in 1..n |->
        IF s.transform = "PFFFT_REAL" /\ i \in {1, n} THEN a[i] * b[i] * scaling
        ELSE LET k == (i - first) \div 2
                 u == <<a[first + 2 * k], a[first + 2 * k + 1]>>
                 v == <<b[first + 2 * k], b[first + 2 * k + 1]>>
             IN CMul(u, v)[((i - first) % 2) + 1] * scaling]

\* pffft_zconvolve_no_accu: ab = (a * b) * scaling
pffft_zconvolve_no_accu(s, a, b, ab, scaling) == ZProduct(s, a, b, scaling)

\* pffft_zconvolve_accumulate: ab += (a * b) * scaling
pffft_zconvolve_accumulate(s, a, b, ab, scaling) ==
  [i \in 1..Len(ab) |-> ab[i] + ZProduct(s, a, b, scaling)[i]]

(***************************************************************************)
(* Types<T>: the aligned allocator of each kind.                           *)
(***************************************************************************)
\* an allocation that counts scalars where the code counts elements of T
Types_alignedAlloc_scalars(st, n, ok) ==
  pffft_aligned_malloc(st, LibOf(st.kind), n * SizeofScalar(st.kind), ok)

\* Types<T>::alignedAlloc(N): N elements of T
Types_alignedAlloc(st, n, ok) ==
  pffft_aligned_malloc(st, LibOf(st.kind), n * SizeofT(st.kind), ok)

\* Types<T>::alignedFree(ptr)
Types_alignedFree(st, p) == pffft_aligned_free(st, LibOf(st.kind), p)

(***************************************************************************)
(* Setup<T>: the four specializations.  st.self is the wrapper's handle.   *)
(***************************************************************************)
\* a wrapper that forgets to destroy the handle it replaces
Setup_float_prepareLength_noDestroy(st, len) ==
  LET s2 == pffft_new_setup(st, "pffft", len, "PFFFT_REAL")
  IN [s2 EXCEPT !.self = s2.ret]

\* Setup<float>::prepareLength
Setup_float_prepareLength(st, len) ==
  LET s1 == IF st.self # NULL THEN pffft_destroy_setup(st, "pffft", st.self) ELSE st
      s2 == pffft_new_setup(s1, "pffft", len, "PFFFT_REAL")
  IN [s2 EXCEPT !.self = s2.ret]

\* Setup< std::complex<float> >::prepareLength
Setup_cfloat_prepareLength(st, len) ==
  LET s1 == IF st.self # NULL THEN pffft_destroy_setup(st, "pffft", st.self) ELSE st
      s2 == pffft_new_setup(s1, "pffft", len, "PFFFT_COMPLEX")
  IN [s2 EXCEPT !.self = s2.ret]

\* Setup<double>::prepareLength
Setup_double_prepareLength(st, len) ==
  LET s1 == IF st.self # NULL
            THEN [pffft_destroy_setup(st, "pffftd", st.self) EXCEPT !.self = NULL]
            ELSE st
  IN IF len > 0
     THEN LET s2 == pffft_new_setup(s1, "pffftd", len, "PFFFT_REAL")
          IN [s2 EXCEPT !.self = s2.ret]
     ELSE s1

\* a wrapper that creates the new handle before it destroys the old one
Setup_cdouble_prepareLength_createFirst(st, len) ==
  LET s1 == pffft_new_setup(st, "pffftd", len, "PFFFT_COMPLEX")
      s2 == IF st.self # NULL THEN pffft_destroy_setup(s1, "pffftd", st.self) ELSE s1
  IN [s2 EXCEPT !.self = s1.ret]

\* Setup< std::complex<double> >::prepareLength
Setup_cdouble_prepareLength(st, len) ==
  LET s1 == IF st.self # NULL THEN pffft_destroy_setup(st, "pffftd", st.self) ELSE st
      s2 == pffft_new_setup(s1, "pffftd", len, "PFFFT_COMPLEX")
  IN [s2 EXCEPT !.self = s2.ret]

\* a wrapper that prepares only when it is empty
Setup_prepareLength_onlyWhenEmpty(st, len) ==
  IF st.self # NULL THEN st
  ELSE IF st.kind \in {"float", "double"}
       THEN Setup_double_prepareLength(st, len)
       ELSE Setup_cdouble_prepareLength(st, len)

\* setup.prepareLength(length), resolved by T; the call itself is logged
Setup_prepareLength(st, len) ==
  LET s0 == [st EXCEPT !.calls = Append(@, Call("Setup_prepareLength", LibOf(st.kind),
                                                  st.self, NULL, len, "", NULL))]
  IN CASE st.kind = "float" -> Setup_float_prepareLength(s0, len)
       [] st.kind = "cfloat" -> Setup_cfloat_prepareLength(s0, len)
       [] st.kind = "double" -> Setup_double_prepareLength(s0, len)
       [] st.kind = "cdouble" -> Setup_cdouble_prepareLength(s0, len)

\* the member functions each specialization of Setup<T> declares
Setup_members(k) ==
  CASE k = "float" ->
         {"prepareLength", "transform_ordered", "transform", "reorder", "convolveAccumulate", "convolve"}
    [] k = "cfloat" ->
         {"prepareLength", "transform_ordered", "transform", "reorder", "convolve"}
    [] k = "double" ->
         {"prepareLength", "transform_ordered", "transform", "reorder", "convolveAccumulate", "convolve"}
    [] k = "cdouble" ->
         {"prepareLength", "transform_ordered", "transform", "reorder", "convolveAccumulate", "convolve"}

\* the engine is handed a handle it can use
HandleUsable(st) == st.self # NULL /\ st.heap.setups[st.self].live

\* the outcome of one call through the wrapper: the state with the call
\* logged, the output buffer (out, the buffer as it was when nothing is
\* written), ub when the engine is handed a handle it cannot use, and built
\* FALSE when the specialization has no such member, so that no build of
\* the program contains the call
Outcome(st, fn, w, direction, unwritten, written) ==
  [st |-> [st EXCEPT !.calls = Append(@, Call(fn, LibOf(st.kind), st.self, w, 0, direction, NULL))],
   out |-> IF HandleUsable(st) THEN written ELSE unwritten,
   ub |-> ~HandleUsable(st),
   built |-> TRUE]

NotBuilt(st, unwritten) == [st |-> st, out |-> unwritten, ub |-> FALSE, built |-> FALSE]

\* Setup<T>::transform_ordered
Setup_transform_ordered(st, input, output, w, direction) ==
  Outcome(st, "transform_ordered", w, direction, output,
          pffft_transform_ordered(st.heap.setups[st.self], input, direction))

\* Setup<T>::transform
Setup_transform(st, input, output, w, direction) ==
  Outcome(st, "transform", w, direction, output,
          pffft_transform(st.heap.setups[st.self], input, direction))

\* Setup<T>::reorder
Setup_reorder(st, input, output, direction) ==
  Outcome(st, "zreorder", NULL, direction, output,
          pffft_zreorder(st.heap.setups[st.self], input, direction))

\* Setup<T>::convolveAccumulate
Setup_convolveAccumulate(st, a, b, ab, scaling) ==
  IF "convolveAccumulate" \in Setup_members(st.kind)
  THEN Outcome(st, "zconvolve_accumulate", NULL, "", ab,
               pffft_zconvolve_accumulate(st.heap.setups[st.self], a, b, ab, scaling))
  ELSE NotBuilt(st, ab)

\* Setup<T>::convolve
Setup_convolve(st, a, b, ab, scaling) ==
  IF "convolve" \in Setup_members(st.kind)
  THEN Outcome(st, "zconvolve_no_accu", NULL, "", ab,
               pffft_zconvolve_no_accu(st.heap.setups[st.self], a, b, ab, scaling))
  ELSE NotBuilt(st, ab)

\* Setup<T>::~Setup
Setup_dtor(st) == pffft_destroy_setup(st, LibOf(st.kind), st.self)

(***************************************************************************)
(* Fft<T>: the facade.                                                     *)
(***************************************************************************)
\* an early return that looks at the placement only
Fft_prepareLength_unchanged_placementOnly(st, newLength) ==
  (newLength > st.stackThresholdLen) = (st.work # NULL)

\* the early return of Fft<T>::prepareLength
Fft_prepareLength_unchanged(st, newLength) ==
  LET wasOnHeap == (st.work # NULL)
      useHeap == newLength > st.stackThresholdLen
  IN (useHeap = wasOnHeap) /\ newLength = st.length

\* Fft<T>::prepareLength
Fft_prepareLength(st, newLength, allocOk) ==
  LET useHeap == newLength > st.stackThresholdLen
  IN IF Fft_prepareLength_unchanged(st, newLength)
     THEN st
     ELSE LET s1 == [st EXCEPT !.length = newLength]
              s2 == Setup_prepareLength(s1, s1.length)
              s3 == IF s2.work # NULL
                    THEN [Types_alignedFree(s2, s2.work) EXCEPT !.work = NULL]
                    ELSE s2
          IN IF useHeap
             THEN LET s4 == Types_alignedAlloc(s3, s3.length, allocOk)
                  IN [s4 EXCEPT !.work = s4.ret]
             ELSE s3

\* the members as the constructor's initializer list leaves them
Fft_members(k, thr) ==
  [kind |-> k, self |-> NULL, work |-> NULL, length |-> 0, stackThresholdLen |-> thr,
   heap |-> EmptyHeap, calls |-> <<>>, ret |-> NULL]

\* Fft<T>::Fft(length, stackThresholdLen)
Fft_ctor(k, len, thr, allocOk) == Fft_prepareLength(Fft_members(k, thr), len, allocOk)

\* Fft<T>::~Fft, then the destructor of the member setup
Fft_dtor(st) == Setup_dtor(Types_alignedFree(st, st.work))

\* Fft<T>::getLength
getLength(st) == st.length

\* a spectrum size that forgets that a real spectrum is packed
getSpectrumSize_unhalved(st) == st.length

\* Fft<T>::getSpectrumSize
getSpectrumSize(st) == IF isComplexTransform(st.kind) THEN st.length ELSE st.length \div 2

\* Fft<T>::getInternalLayoutSize
getInternalLayoutSize(st) == IF isComplexTransform(st.kind) THEN 2 * st.length ELSE st.length

\* a buffer of n zeroed scalars
ZeroVec(n) == [i \in 1..n |-> 0]

\* scalars in a buffer of n elements of T
ScalarsOfT(k, n) == n * (SizeofT(k) \div SizeofScalar(k))

\* Fft<T>::valueVector: a zeroed buffer of length elements of T
Fft_valueVector(st) == ZeroVec(ScalarsOfT(st.kind, st.length))

\* Fft<T>::spectrumVector: a zeroed buffer of getSpectrumSize() complex numbers
Fft_spectrumVector(st) == ZeroVec(2 * getSpectrumSize(st))

\* Fft<T>::internalLayoutVector: a zeroed buffer of getInternalLayoutSize() scalars
Fft_internalLayoutVector(st) == ZeroVec(getInternalLayoutSize(st))

\* a forward transform that gives up the scratch buffer
Fft_forward_dropsWork(st, input, spectrum) ==
  LET r == Setup_transform_ordered(st, input, spectrum, st.work, "PFFFT_FORWARD")
  IN [r EXCEPT !.st.work = NULL]

\* Fft<T>::forward
Fft_forward(st, input, spectrum) ==
  Setup_transform_ordered(st, input, spectrum, st.work, "PFFFT_FORWARD")

\* an inverse that asks the engine for the forward transform
Fft_inverse_forwardDirection(st, spectrum, output) ==
  Setup_transform_ordered(st, spectrum, output, st.work, "PFFFT_FORWARD")

\* Fft<T>::inverse
Fft_inverse(st, spectrum, output) ==
  Setup_transform_ordered(st, spectrum, output, st.work, "PFFFT_BACKWARD")

\* Fft<T>::forwardToInternalLayout
Fft_forwardToInternalLayout(st, input, spectrum_internal_layout) ==
  Setup_transform(st, input, spectrum_internal_layout, st.work, "PFFFT_FORWARD")

\* Fft<T>::inverseFromInternalLayout
Fft_inverseFromInternalLayout(st, spectrum_internal_layout, output) ==
  Setup_transform(st, spectrum_internal_layout, output, st.work, "PFFFT_BACKWARD")

\* Fft<T>::reorderSpectrum
Fft_reorderSpectrum(st, input, output) == Setup_reorder(st, input, output, "PFFFT_FORWARD")

\* Fft<T>::convolveAccumulate
Fft_convolveAccumulate(st, dft_a, dft_b, dft_ab, scaling) ==
  Setup_convolveAccumulate(st, dft_a, dft_b, dft_ab, scaling)

\* Fft<T>::convolve
Fft_convolve(st, dft_a, dft_b, dft_ab, scaling) ==
  Setup_convolve(st, dft_a, dft_b, dft_ab, scaling)

(***************************************************************************)
(* The state: one facade Fft<T>, the heap behind it, the caller's buffers,  *)
(* and the second facade a copy of the first gives (SpecCopy only).        *)
(***************************************************************************)
VARIABLES
  kind,               \* the template argument T
  setup_self,         \* Fft<T>::setup.self, the engine handle
  work,               \* Fft<T>::work, the heap scratch buffer or NULL
  length,             \* Fft<T>::length
  stackThresholdLen,  \* Fft<T>::stackThresholdLen
  heap,               \* the engine setups and scratch buffers that are allocated
  status,             \* "alive", "destroyed" (after ~Fft) or "crashed"
  calls,              \* the engine and allocator calls of the latest operation
  op,                 \* the latest operation and its argument
  pre,                \* the members and the operation before the latest operation
  xin,                \* caller buffer: the time-domain input of the latest forward
  freq,               \* caller buffer: the spectrum
  layout,             \* the layout freq is in: "ordered", "internal" or "none"
  yout,               \* caller buffer: the output of the latest inverse
  ab,                 \* caller buffer: the convolution result
  sumConv,            \* the sum of what convolve gives for each accumulated pair
  nacc,               \* accumulations into ab since it was zeroed, -1 when overwritten
  overwrite,          \* what the latest convolve gives into a zeroed buffer
  copy,               \* the members of a second facade made by copying this one
  released            \* per heap cell: destroy / free calls since it was handed out

facadeVars == <<kind, setup_self, work, length, stackThresholdLen, heap, status, calls, op, pre>>

tripVars == <<xin, freq, layout, yout>>

convVars == <<ab, sumConv, nacc, overwrite>>

ownVars == <<copy, released>>

vars == <<facadeVars, tripVars, convVars, ownVars>>

\* the facade and its heap, as the operators above take them
Now ==
  [kind |-> kind, self |-> setup_self, work |-> work, length |-> length,
   stackThresholdLen |-> stackThresholdLen, heap |-> heap, calls |-> <<>>, ret |-> NULL]

Install(s) ==
  /\ kind' = s.kind
  /\ setup_self' = s.self
  /\ work' = s.work
  /\ length' = s.length
  /\ stackThresholdLen' = s.stackThresholdLen
  /\ heap' = s.heap
  /\ calls' = s.calls

\* no second facade
NoCopy == [status |-> "none", self |-> NULL, work |-> NULL, length |-> 0, stackThresholdLen |-> 0]

NoneReleased == [setups |-> [a \in Addr |-> 0], bufs |-> [a \in Addr |-> 0]]

\* released after the calls cs: a cell handed out starts at 0, every
\* destroy or free of a non-null pointer adds 1 to its cell
RECURSIVE Tally(_, _)
Tally(rel, cs) ==
  IF cs = <<>> THEN rel
  ELSE LET c == Head(cs)
           r1 == CASE c.fn = "new_setup" /\ c.res # NULL -> [rel EXCEPT !.setups[c.res] = 0]
                   [] c.fn = "destroy_setup" /\ c.h # NULL -> [rel EXCEPT !.setups[c.h] = @ + 1]
                   [] c.fn = "aligned_malloc" /\ c.res # NULL -> [rel EXCEPT !.bufs[c.res] = 0]
                   [] c.fn = "aligned_free" /\ c.w # NULL -> [rel EXCEPT !.bufs[c.w] = @ + 1]
                   [] OTHER -> rel
       IN Tally(r1, Tail(cs))

\* the facade st holds a pointer to a cell that is no longer allocated
Dangling(st) ==
  \/ st.self # NULL /\ ~st.heap.setups[st.self].live
  \/ st.work # NULL /\ ~st.heap.bufs[st.work].live

\* the outcomes of an operation on st: it returns, or, where it hands on a
\* dangling pointer, the process may end
Crashes(st) == IF Dangling(st) THEN BOOLEAN ELSE {FALSE}

Snapshot == [length |-> length, self |-> setup_self, work |-> work, name |-> op.name, arg |-> op.arg]

NoTrip == /\ xin = <<>> /\ freq = <<>> /\ layout = "none" /\ yout = <<>>

NoConv == /\ ab = <<>> /\ sumConv = <<>> /\ nacc = 0 /\ overwrite = <<>>

\* the state after Fft<T>(len, thr)
Constructed(k, len, thr, allocOk) ==
  LET s == Fft_ctor(k, len, thr, allocOk)
  IN /\ kind = s.kind
     /\ setup_self = s.self
     /\ work = s.work
     /\ length = s.length
     /\ stackThresholdLen = s.stackThresholdLen
     /\ heap = s.heap
     /\ calls = s.calls
     /\ status = "alive"
     /\ op = [name |-> "Fft", arg |-> len]
     /\ pre = [length |-> 0, self |-> NULL, work |-> NULL, name |-> "none", arg |-> 0]
     /\ copy = NoCopy
     /\ released = Tally(NoneReleased, s.calls)

Init ==
  /\ \E k \in Kinds, len \in Lengths, thr \in Thresholds, allocOk \in BOOLEAN :
       Constructed(k, len, thr, allocOk)
  /\ NoTrip
  /\ NoConv

\* fft.prepareLength(newLength); the allocator may have no memory.  Handing
\* the engine or the allocator a dangling pointer is undefined: the process
\* ends there, or the call returns.
PrepareLength ==
  /\ status = "alive"
  /\ \E newLength \in Lengths, allocOk \in BOOLEAN, crash \in Crashes(Now) :
       /\ Install(Fft_prepareLength(Now, newLength, allocOk))
       /\ op' = [name |-> "prepareLength", arg |-> newLength]
       /\ status' = IF crash /\ ~Fft_prepareLength_unchanged(Now, newLength)
                    THEN "crashed" ELSE status
  /\ pre' = Snapshot
  /\ released' = Tally(released, calls')
  /\ UNCHANGED <<copy, tripVars, convVars>>

\* the facade goes out of scope
Destroy ==
  /\ status = "alive"
  /\ Install(Fft_dtor(Now))
  /\ \E crash \in Crashes(Now) : status' = IF crash THEN "crashed" ELSE "destroyed"
  /\ op' = [name |-> "~Fft", arg |-> 0]
  /\ pre' = Snapshot
  /\ released' = Tally(released, calls')
  /\ UNCHANGED <<copy, tripVars, convVars>>

\* what a transform, reorder or convolve call r leaves of the facade.  A
\* call that hands the engine a handle it cannot use is undefined: the
\* process ends there, or the call returns having written nothing.
Called(r, name, crash) ==
  /\ Install(r.st)
  /\ status' = IF r.ub /\ crash THEN "crashed" ELSE status
  /\ op' = [name |-> name, arg |-> 0]
  /\ pre' = Snapshot
  /\ UNCHANGED ownVars

(***************************************************************************)
(* Spec: the life of a facade.  The caller's buffers hold zeros and are    *)
(* not kept.                                                               *)
(***************************************************************************)
ZeroT == ZeroVec(ScalarsOfT(kind, length))

ZeroSpectrum == ZeroVec(2 * getSpectrumSize(Now))

ZeroInternal == ZeroVec(getInternalLayoutSize(Now))

Forward ==
  /\ status = "alive"
  /\ \E crash \in BOOLEAN : Called(Fft_forward(Now, ZeroT, ZeroSpectrum), "forward", crash)
  /\ UNCHANGED <<tripVars, convVars>>

Inverse ==
  /\ status = "alive"
  /\ \E crash \in BOOLEAN : Called(Fft_inverse(Now, ZeroSpectrum, ZeroT), "inverse", crash)
  /\ UNCHANGED <<tripVars, convVars>>

ForwardToInternalLayout ==
  /\ status = "alive"
  /\ \E crash \in BOOLEAN :
       Called(Fft_forwardToInternalLayout(Now, ZeroT, ZeroInternal), "forwardToInternalLayout", crash)
  /\ UNCHANGED <<tripVars, convVars>>

InverseFromInternalLayout ==
  /\ status = "alive"
  /\ \E crash \in BOOLEAN :
       Called(Fft_inverseFromInternalLayout(Now, ZeroInternal, ZeroT), "inverseFromInternalLayout", crash)
  /\ UNCHANGED <<tripVars, convVars>>

ReorderSpectrum ==
  /\ status = "alive"
  /\ \E crash \in BOOLEAN :
       Called(Fft_reorderSpectrum(Now, ZeroInternal, ZeroSpectrum), "reorderSpectrum", crash)
  /\ UNCHANGED <<tripVars, convVars>>

Convolve ==
  /\ status = "alive"
  /\ \E crash \in BOOLEAN :
       Called(Fft_convolve(Now, ZeroInternal, ZeroInternal, ZeroInternal, 1), "convolve", crash)
  /\ UNCHANGED <<tripVars, convVars>>

ConvolveAccumulate ==
  /\ status = "alive"
  /\ \E crash \in BOOLEAN :
       Called(Fft_convolveAccumulate(Now, ZeroInternal, ZeroInternal, ZeroInternal, 1),
              "convolveAccumulate", crash)
  /\ UNCHANGED <<tripVars, convVars>>

\* the const queries: the value each returns is kept as the operation's argument
SizeQueries(st) ==
  [getLength |-> getLength(st),
   getSpectrumSize |-> getSpectrumSize(st),
   getInternalLayoutSize |-> getInternalLayoutSize(st)]

\* the const vector helpers: the number of scalars of the buffer each returns
VectorHelpers(st) ==
  [valueVector |-> Len(Fft_valueVector(st)),
   spectrumVector |-> Len(Fft_spectrumVector(st)),
   internalLayoutVector |-> Len(Fft_internalLayoutVector(st))]

\* a const member function: no member is written
ConstCall(name, result) ==
  /\ status = "alive"
  /\ op' = [name |-> name, arg |-> result]
  /\ pre' = Snapshot
  /\ calls' = <<>>
  /\ UNCHANGED <<kind, setup_self, work, length, stackThresholdLen, heap, status, tripVars, convVars, ownVars>>

\* fft.getLength(), fft.getSpectrumSize(), fft.getInternalLayoutSize()
SizeQuery == \E name \in DOMAIN SizeQueries(Now) : ConstCall(name, SizeQueries(Now)[name])

\* fft.valueVector(), fft.spectrumVector(), fft.internalLayoutVector()
VectorHelper == \E name \in DOMAIN VectorHelpers(Now) : ConstCall(name, VectorHelpers(Now)[name])

Next ==
  \/ PrepareLength
  \/ Destroy
  \/ Forward
  \/ Inverse
  \/ ForwardToInternalLayout
  \/ InverseFromInternalLayout
  \/ ReorderSpectrum
  \/ Convolve
  \/ ConvolveAccumulate
  \/ SizeQuery
  \/ VectorHelper

Spec == Init /\ [][Next]_vars

(***************************************************************************)
(* SpecCopy: two facades.  Fft<T> declares no copy constructor and no       *)
(* assignment, and neither does Setup<T>, so that Fft<T> b(a) copies the    *)
(* members one by one: b.setup.self, b.work, b.length, b.stackThresholdLen. *)
(* Both facades then live their lives on the one heap.                      *)
(***************************************************************************)
\* the second facade and the heap, as the operators above take them
CopyNow ==
  [kind |-> kind, self |-> copy.self, work |-> copy.work, length |-> copy.length,
   stackThresholdLen |-> copy.stackThresholdLen, heap |-> heap, calls |-> <<>>, ret |-> NULL]

\* what an operation of the second facade leaves: its members as in s, the
\* heap and the calls of s, and the first facade untouched; ub tells that
\* the operation handed the engine or the allocator a dangling pointer
CopyInstall(s, name, arg, ends, ub) ==
  /\ copy' = [status |-> IF ub THEN "crashed" ELSE ends,
              self |-> s.self, work |-> s.work, length |-> s.length,
              stackThresholdLen |-> s.stackThresholdLen]
  /\ heap' = s.heap
  /\ calls' = s.calls
  /\ released' = Tally(released, s.calls)
  /\ status' = IF ub THEN "crashed" ELSE status
  /\ op' = [name |-> name, arg |-> arg]
  /\ pre' = Snapshot
  /\ UNCHANGED <<kind, setup_self, work, length, stackThresholdLen, tripVars, convVars>>

\* Fft<T> b(a): the implicit copy constructor
Copy ==
  /\ status = "alive"
  /\ copy.status = "none"
  /\ copy' = [status |-> "alive", self |-> setup_self, work |-> work, length |-> length,
              stackThresholdLen |-> stackThresholdLen]
  /\ op' = [name |-> "Fft(const Fft&)", arg |-> length]
  /\ pre' = Snapshot
  /\ calls' = <<>>
  /\ UNCHANGED <<kind, setup_self, work, length, stackThresholdLen, heap, status, released,
                 tripVars, convVars>>

\* b.prepareLength(newLength)
CopyPrepareLength ==
  /\ status # "crashed"
  /\ copy.status = "alive"
  /\ \E newLength \in Lengths, allocOk \in BOOLEAN, crash \in Crashes(CopyNow) :
       CopyInstall(Fft_prepareLength(CopyNow, newLength, allocOk), "b.prepareLength", newLength,
                   "alive", crash /\ ~Fft_prepareLength_unchanged(CopyNow, newLength))

\* b goes out of scope
CopyDestroy ==
  /\ status # "crashed"
  /\ copy.status = "alive"
  /\ \E crash \in Crashes(CopyNow) : CopyInstall(Fft_dtor(CopyNow), "b.~Fft", 0, "destroyed", crash)

NextCopy ==
  \/ PrepareLength
  \/ Destroy
  \/ Copy
  \/ CopyPrepareLength
  \/ CopyDestroy

\* the first facade is constructed with the highest threshold, so that its
\* lengths fall on both sides of it
InitCopy ==
  /\ \E k \in Kinds, len \in Lengths, allocOk \in BOOLEAN :
       Constructed(k, len, MaxThreshold, allocOk)
  /\ NoTrip
  /\ NoConv

SpecCopy == InitCopy /\ [][NextCopy]_vars

(***************************************************************************)
(* SpecNum: what the transforms compute.  The constructor's arguments and  *)
(* the input x are drawn at the start (x is the zero buffer where the      *)
(* engine refused the length); a behaviour then either takes x             *)
(* through a round trip or, from the zero x, accumulates products into ab. *)
(* The caller's buffers hold their contents only: they are the caller's to *)
(* allocate.                                                               *)
(***************************************************************************)
\* scalars of the inputs: 0..MaxVal
MaxVal == 1
\* convolveAccumulate calls into one zeroed buffer
MaxAcc == 2

Vals == 0..MaxVal

\* every buffer of n scalars
Inputs(n) == [1..n -> Vals]

\* spectra handed to convolve: ramps of period MaxVal + 2
Samples(n) == {[i \in 1..n |-> (i + d) % (MaxVal + 2)] : d \in Vals}

Scalings == {1, 2}

VecAdd(u, v) == [i \in 1..Len(u) |-> u[i] + v[i]]

InitNum ==
  /\ \E k \in Kinds, len \in Lengths, thr \in {MaxThreshold} :
       /\ EngineAccepts(len, TransformOf(k)) => ExactLength(len)
       /\ Constructed(k, len, thr, TRUE)
  /\ xin \in (IF setup_self # NULL THEN Inputs(ScalarsOfT(kind, length)) ELSE {ZeroT})
  /\ freq = <<>>
  /\ layout = "none"
  /\ yout = <<>>
  /\ NoConv

TripOpen == status = "alive" /\ ab = <<>>

NumForward ==
  /\ TripOpen
  /\ layout = "none"
  /\ \E crash \in BOOLEAN :
       LET r == Fft_forward(Now, xin, ZeroSpectrum)
       IN /\ Called(r, "forward", crash)
          /\ freq' = r.out
  /\ layout' = "ordered"
  /\ UNCHANGED <<xin, yout, convVars>>

NumInverse ==
  /\ TripOpen
  /\ layout = "ordered"
  /\ \E crash \in BOOLEAN :
       LET r == Fft_inverse(Now, freq, ZeroT)
       IN /\ Called(r, "inverse", crash)
          /\ yout' = r.out
  /\ UNCHANGED <<xin, freq, layout, convVars>>

NumForwardToInternalLayout ==
  /\ TripOpen
  /\ layout = "none"
  /\ \E crash \in BOOLEAN :
       LET r == Fft_forwardToInternalLayout(Now, xin, ZeroInternal)
       IN /\ Called(r, "forwardToInternalLayout", crash)
          /\ freq' = r.out
  /\ layout' = "internal"
  /\ UNCHANGED <<xin, yout, convVars>>

NumInverseFromInternalLayout ==
  /\ TripOpen
  /\ layout = "internal"
  /\ \E crash \in BOOLEAN :
       LET r == Fft_inverseFromInternalLayout(Now, freq, ZeroT)
       IN /\ Called(r, "inverseFromInternalLayout", crash)
          /\ yout' = r.out
  /\ UNCHANGED <<xin, freq, layout, convVars>>

NumReorderSpectrum ==
  /\ TripOpen
  /\ layout = "internal"
  /\ yout = <<>>
  /\ \E crash \in BOOLEAN :
       LET r == Fft_reorderSpectrum(Now, freq, ZeroSpectrum)
       IN /\ Called(r, "reorderSpectrum", crash)
          /\ freq' = r.out
  /\ layout' = "ordered"
  /\ UNCHANGED <<xin, yout, convVars>>

\* ab = fft.internalLayoutVector()
NumInternalLayoutVector ==
  /\ status = "alive"
  /\ layout = "none"
  /\ xin = ZeroT
  /\ ab = <<>>
  /\ getInternalLayoutSize(Now) > 0
  /\ ab' = Fft_internalLayoutVector(Now)
  /\ sumConv' = Fft_internalLayoutVector(Now)
  /\ nacc' = 0
  /\ overwrite' = <<>>
  /\ op' = [name |-> "internalLayoutVector", arg |-> 0]
  /\ pre' = Snapshot
  /\ calls' = <<>>
  /\ UNCHANGED <<kind, setup_self, work, length, stackThresholdLen, heap, status, tripVars, ownVars>>

NumConvolveAccumulate ==
  /\ status = "alive"
  /\ ab # <<>>
  /\ nacc \in 0..(MaxAcc - 1)
  /\ \E a \in Samples(Len(ab)), b \in Samples(Len(ab)), scaling \in Scalings, crash \in BOOLEAN :
       LET r == Fft_convolveAccumulate(Now, a, b, ab, scaling)
           c == Fft_convolve(Now, a, b, ab, scaling)
       IN /\ Called(r, "convolveAccumulate", crash)
          /\ ab' = r.out
          /\ sumConv' = IF c.ub THEN sumConv ELSE VecAdd(sumConv, c.out)
  /\ nacc' = nacc + 1
  /\ UNCHANGED <<overwrite, tripVars>>

NumConvolve ==
  /\ status = "alive"
  /\ ab # <<>>
  /\ nacc >= 0
  /\ \E a \in Samples(Len(ab)), b \in Samples(Len(ab)), scaling \in Scalings, crash \in BOOLEAN :
       LET r == Fft_convolve(Now, a, b, ab, scaling)
           c == Fft_convolve(Now, a, b, ZeroInternal, scaling)
       IN /\ Called(r, "convolve", crash)
          /\ ab' = r.out
          /\ overwrite' = c.out
  /\ nacc' = -1
  /\ sumConv' = <<>>
  /\ UNCHANGED tripVars

NextNum ==
  \/ NumForward
  \/ NumInverse
  \/ NumForwardToInternalLayout
  \/ NumInverseFromInternalLayout
  \/ NumReorderSpectrum
  \/ NumInternalLayoutVector
  \/ NumConvolveAccumulate
  \/ NumConvolve

SpecNum == InitNum /\ [][NextNum]_vars

(***************************************************************************)
(* Properties of the life of a facade (checked under Spec).                *)
(***************************************************************************)
PrepareOps == {"Fft", "prepareLength"}

TransformOps ==
  {"forward", "inverse", "forwardToInternalLayout", "inverseFromInternalLayout",
   "reorderSpectrum", "convolve", "convolveAccumulate"}

ComplexKinds == {"cfloat", "cdouble"}

\* the calls of the latest operation to function fn
CallsTo(fn) == {i \in 1..Len(calls) : calls[i].fn = fn}

\* the latest operation asked the allocator for memory and got none
AllocFailed == \E i \in CallsTo("aligned_malloc") : calls[i].res = NULL

\* C1: right after the constructor or prepareLength(N) returns, whichever
\* path it took and whether or not the engine created a setup,
\* getLength() is N.
C1_LengthIsRequested ==
  (status = "alive" /\ op.name \in PrepareOps) => getLength(Now) = op.arg

\* C1 witness: prepareLength(N) changed the length to an N the engine refused.
C1_Witness ==
  /\ op.name = "prepareLength"
  /\ op.arg > 0
  /\ pre.length # op.arg
  /\ setup_self = NULL
  /\ getLength(Now) = op.arg

\* C2: getSpectrumSize() is N for the complex kinds and N/2 for the real
\* kinds, getInternalLayoutSize() is 2N for the complex kinds and N for the
\* real kinds, whatever the history and the threshold.
C2_SizeQueries ==
  status = "alive" =>
    /\ getSpectrumSize(Now) = (IF kind \in ComplexKinds THEN length ELSE length \div 2)
    /\ getInternalLayoutSize(Now) = (IF kind \in ComplexKinds THEN 2 * length ELSE length)

\* C2 witness: a real kind with an odd length, reached by prepareLength.
C2_Witness ==
  /\ status = "alive"
  /\ kind = "float"
  /\ op.name = "prepareLength"
  /\ length = 3
  /\ getSpectrumSize(Now) = 1
  /\ getInternalLayoutSize(Now) = 3

\* prepareLength(N) found the length and the placement class as they were
SameAsBefore ==
  /\ op.arg = pre.length
  /\ (op.arg > stackThresholdLen) = (pre.work # NULL)

\* C3, first part: prepareLength(N) does nothing exactly when N and the
\* placement class are unchanged.
C3_SkipsExactlyWhenUnchanged ==
  op.name = "prepareLength" => ((calls = <<>>) <=> SameAsBefore)

\* C3, second part: in every other case it calls the wrapper's
\* prepareLength once, frees the scratch buffer it had and allocates one
\* when N is above the threshold.
C3_OtherwiseReprepares ==
  (op.name = "prepareLength" /\ ~SameAsBefore) =>
    /\ Cardinality(CallsTo("Setup_prepareLength")) = 1
    /\ Cardinality(CallsTo("aligned_free")) = (IF pre.work # NULL THEN 1 ELSE 0)
    /\ Cardinality(CallsTo("aligned_malloc")) = (IF op.arg > stackThresholdLen THEN 1 ELSE 0)

\* C3, the consequence: a prepareLength(N) right after a prepareLength(N)
\* (or after the constructor with N) makes no engine or allocator call.
C3_SecondCallIsIdle ==
  (op.name = "prepareLength" /\ pre.name \in PrepareOps /\ pre.arg = op.arg) => calls = <<>>

\* C3: the claim as stated, all three parts.
C3_PrepareLengthCaching ==
  /\ C3_SkipsExactlyWhenUnchanged
  /\ C3_OtherwiseReprepares
  /\ C3_SecondCallIsIdle

\* C4: the scratch buffer is on the heap (work is not NULL) exactly when
\* the length is above the stack threshold.
C4_HeapIffAboveThreshold ==
  status = "alive" => ((work # NULL) <=> (length > stackThresholdLen))

\* what the engine holds for the facade's handle
HeldSetup == heap.setups[setup_self]

SetupFor(n) == [live |-> TRUE, N |-> n, transform |-> TransformOf(kind), lib |-> LibOf(kind)]

\* C5 as stated: while a positive length is prepared the handle is not NULL.
C5_NeverNullWhilePositive ==
  (status = "alive" /\ length > 0) => setup_self # NULL

\* C5 as amended: the handle is NULL exactly when the length is 0 or the
\* engine refuses the length; otherwise it is a live setup created for
\* (length, kind).
C5_NullOnlyIfRefused ==
  status = "alive" =>
    IF length > 0 /\ EngineAccepts(length, TransformOf(kind))
    THEN setup_self # NULL /\ HeldSetup = SetupFor(length)
    ELSE setup_self = NULL

\* C5 witness: a length the engine refused, then one it accepts.
C5_Witness ==
  /\ status = "alive"
  /\ op.name = "prepareLength"
  /\ pre.length = 3
  /\ pre.self = NULL
  /\ length = 4
  /\ setup_self # NULL

\* C6: nothing of an earlier length stays behind.  The only setup alive is
\* the facade's, created for the current length and kind; the only scratch
\* buffer alive is the facade's, allocated for the current length; and
\* every transform, reorder and convolve call is handed these.
C6_NoStaleState ==
  status = "alive" =>
    /\ \A a \in Addr : heap.setups[a].live => (a = setup_self /\ heap.setups[a] = SetupFor(length))
    /\ \A a \in Addr :
         heap.bufs[a].live => (a = work /\ heap.bufs[a].bytes = length * SizeofT(kind))
    /\ setup_self # NULL => HeldSetup.live
    /\ work # NULL => heap.bufs[work].live
    /\ op.name \in TransformOps =>
         \A i \in 1..Len(calls) :
           /\ calls[i].h = setup_self
           /\ calls[i].fn \in {"transform_ordered", "transform"} => calls[i].w = work

\* C6 witness: prepareLength(2) then prepareLength(4), both above the
\* threshold and both accepted by the engine.
C6_Witness ==
  /\ status = "alive"
  /\ op.name = "prepareLength"
  /\ pre.length = 2
  /\ pre.self # NULL
  /\ pre.work # NULL
  /\ length = 4
  /\ setup_self # NULL
  /\ work # NULL

\* C7: for each kind convolveAccumulate reaches the engine's accumulate
\* entry point and convolve its overwrite entry point, and the wrapper of
\* the facade's kind declares the members every other specialization
\* declares.
C7_AccumulateForEveryKind ==
  /\ op.name = "convolveAccumulate" =>
       /\ calls = <<Call("zconvolve_accumulate", LibOf(kind), setup_self, NULL, 0, "", NULL)>>
       /\ \A k \in Kinds : Setup_members(k) = Setup_members(kind)
  /\ op.name = "convolve" =>
       /\ calls = <<Call("zconvolve_no_accu", LibOf(kind), setup_self, NULL, 0, "", NULL)>>
       /\ \A k \in Kinds : Setup_members(k) = Setup_members(kind)

\* C10: when the allocator has no memory for the scratch buffer,
\* prepareLength does not return normally.
C10_AllocFailureIsFatal ==
  (op.name \in PrepareOps /\ AllocFailed) => status # "alive"

\* the setups the engine holds alive
LiveSetups == {a \in Addr : heap.setups[a].live}

\* C11, the part about the state: a wrapper prepareLength(newLength <= 0)
\* releases the handle it held and leaves the handle NULL.
C11_EndsEmpty ==
  \A i \in CallsTo("Setup_prepareLength") :
    calls[i].n <= 0 =>
      /\ setup_self = NULL
      /\ calls[i].h # NULL =>
           /\ \E j \in CallsTo("destroy_setup") : calls[j].h = calls[i].h
           /\ ~heap.setups[calls[i].h].live

\* C11: for every kind, a wrapper prepareLength(newLength <= 0) releases
\* the handle it held, leaves the handle NULL and does not ask the engine
\* to create a setup, from the empty and from the prepared state.
C11_NonPositiveEmpties ==
  /\ C11_EndsEmpty
  /\ \A i \in CallsTo("Setup_prepareLength") :
       calls[i].n <= 0 => CallsTo("new_setup") = {}

\* C12: every wrapper prepareLength(newLength > 0), one with the prepared
\* length included, destroys the handle it holds (if any) and only then
\* asks the engine for a setup for (newLength, kind); at every point at
\* most one setup is alive.
C12_DestroyThenCreate ==
  /\ Cardinality(LiveSetups) <= 1
  /\ \A i \in CallsTo("Setup_prepareLength") :
       calls[i].n > 0 =>
         LET held == calls[i].h
             j == IF held # NULL THEN i + 2 ELSE i + 1
         IN /\ Len(calls) >= j
            /\ held # NULL => calls[i + 1] = Call("destroy_setup", LibOf(kind), held, NULL, 0, "", NULL)
            /\ calls[j].fn = "new_setup"
            /\ calls[j].lib = LibOf(kind)
            /\ calls[j].n = calls[i].n
            /\ calls[j].tr = TransformOf(kind)
            /\ calls[j].res = setup_self
            /\ Cardinality(CallsTo("new_setup")) = 1
            /\ Cardinality(CallsTo("destroy_setup")) = (IF held # NULL THEN 1 ELSE 0)

\* C12 witness: the wrapper is prepared again for the length it is
\* prepared for, and holds a fresh live handle.
C12_Witness ==
  /\ status = "alive"
  /\ op.name = "prepareLength"
  /\ op.arg = pre.length
  /\ op.arg > 0
  /\ pre.self # NULL
  /\ CallsTo("destroy_setup") # {}
  /\ CallsTo("new_setup") # {}
  /\ setup_self # NULL
  /\ LiveSetups = {setup_self}

\* C13: the facade never calls a wrapper's transform, reorder, convolve or
\* convolveAccumulate while the wrapper is empty: every such call hands the
\* engine a live handle.
C13_NeverCalledWhileEmpty ==
  op.name \in TransformOps =>
    \A i \in 1..Len(calls) : calls[i].h # NULL /\ heap.setups[calls[i].h].live

\* C15: whenever the scratch buffer is on the heap, it holds
\* getInternalLayoutSize() scalars: N for the real kinds, 2N for the
\* complex kinds.
C15_ScratchHoldsInternalLayout ==
  (status = "alive" /\ work # NULL) =>
    /\ heap.bufs[work].live
    /\ heap.bufs[work].bytes = getInternalLayoutSize(Now) * SizeofScalar(kind)
    /\ heap.bufs[work].bytes =
         (IF kind \in ComplexKinds THEN 2 * length ELSE length) * SizeofScalar(kind)

\* C15 witness: a complex kind above the threshold; 4 elements are 8 scalars
\* of 8 bytes.
C15_Witness ==
  /\ status = "alive"
  /\ op.name = "prepareLength"
  /\ kind = "cdouble"
  /\ length = 4
  /\ work # NULL
  /\ heap.bufs[work].bytes = 64

\* Ownership, checked under SpecCopy.
\* the facades alive that hold the setup a, and those that hold the buffer p
SetupOwners(a) ==
  {f \in {"a", "b"} : IF f = "a" THEN status = "alive" /\ setup_self = a
                                 ELSE copy.status = "alive" /\ copy.self = a}

BufOwners(p) ==
  {f \in {"a", "b"} : IF f = "a" THEN status = "alive" /\ work = p
                                 ELSE copy.status = "alive" /\ copy.work = p}

\* every facade there was has been destroyed
AllGone == status = "destroyed" /\ copy.status \in {"none", "destroyed"}

\* C14: every engine handle alive is held by exactly one wrapper and every
\* heap scratch buffer by exactly one facade; no handle is passed to the
\* engine's destroy twice and no buffer is freed twice; and once every
\* facade is destroyed nothing is left allocated.  Over construction,
\* prepareLength, copy and destruction.
C14_OwnedOnceReleasedOnce ==
  status # "crashed" =>
    /\ \A a \in Addr : heap.setups[a].live => Cardinality(SetupOwners(a)) = 1
    /\ \A p \in Addr : heap.bufs[p].live => Cardinality(BufOwners(p)) = 1
    /\ \A a \in Addr : released.setups[a] <= 1 /\ released.bufs[a] <= 1
    /\ AllGone => \A a \in Addr : ~heap.setups[a].live /\ ~heap.bufs[a].live

\* the operations that may write the facade's members
MemberWriters == {"prepareLength", "~Fft"}

\* C16: every operation of the facade other than prepareLength and the
\* destructor (the transforms, reorder, the convolutions, the size queries
\* and the vector helpers) leaves length, the engine handle and the
\* scratch-buffer pointer as they were, and no operation at all changes the
\* stack threshold after construction.
C16_OperationsKeepMembers ==
  [][/\ stackThresholdLen' = stackThresholdLen
     /\ op'.name \notin MemberWriters => UNCHANGED <<length, setup_self, work>>]_vars

\* C16 witness: a forward transform on a prepared facade with a heap scratch
\* buffer returned with the members it found.
C16_Witness ==
  /\ status = "alive"
  /\ op.name = "forward"
  /\ setup_self # NULL
  /\ work # NULL
  /\ length > stackThresholdLen
  /\ pre.self = setup_self
  /\ pre.work = work
  /\ pre.length = length

(***************************************************************************)
(* Properties of what the transforms compute (checked under SpecNum).      *)
(***************************************************************************)
\* C8: on a prepared facade of length N, inverse(forward(x)) is N * x
\* elementwise, and so is inverseFromInternalLayout(forwardToInternalLayout(x)).
C8_RoundTripIsNTimesX ==
  (status = "alive" /\ setup_self # NULL /\ op.name \in {"inverse", "inverseFromInternalLayout"})
    => yout = [i \in 1..Len(xin) |-> length * xin[i]]

\* C8 witness: a complex round trip of length 4 on an input that is no
\* palindrome.
C8_Witness ==
  /\ status = "alive"
  /\ op.name = "inverse"
  /\ kind = "cfloat"
  /\ length = 4
  /\ xin = <<1, 0, 0, 1, 1, 1, 0, 0>>
  /\ yout = <<4, 0, 0, 4, 4, 4, 0, 0>>

\* C9: convolve leaves (a * b) * s in ab whatever ab held, and
\* convolveAccumulate adds (a * b) * s to ab, so that the accumulations
\* into a zeroed ab sum to what convolve gives for each pair.
C9_AccumulateAddsConvolveOverwrites ==
  (status = "alive" /\ setup_self # NULL) =>
    /\ op.name = "convolve" => ab = overwrite
    /\ op.name = "convolveAccumulate" => ab = sumConv

====
